---------------------------- MODULE Spec2Model ----------------------------
(***************************************************************************)
(* pg-vault: the interactive session controller (src/tui).                 *)
(*                                                                         *)
(* Strings are sequences of character codes (ASCII), so that sorting,      *)
(* lower-casing and substring search are computed as the code computes     *)
(* them.  The operations of App and FormState are operators on records;    *)
(* operations that call a fallible collaborator (connections.json, the     *)
(* keyring, aws, psql) return the set of their possible outcomes.  One     *)
(* step of the model is one iteration of run_app's loop that reads a key   *)
(* press.                                                                  *)
(***************************************************************************)
EXTENDS Integers, Sequences, FiniteSets, TLC

VARIABLES
    app,        \* struct App (app.rs:157-175)
    disk,       \* contents of connections.json: name -> ConnectionInfo
    keyring,    \* the OS keyring, service "pg-vault": name -> password
    term,       \* terminal: raw mode / alternate screen
    faults,     \* collaborator I/O failures the environment may still inject
    exit,       \* "running", or how run_app returned: "quit" (Ok) / "error" (Err)
    calls,      \* the external processes the last iteration ran, in order
    sigint      \* a SIGINT handler is registered with signal_hook (process-wide)

vars == <<app, disk, keyring, term, faults, exit, calls, sigint>>

----------------------------------------------------------------------------
(* Bounds of the model *)

\* the user types at most this many characters into a search query
MaxQuery == 2
\* the environment injects at most this many collaborator I/O failures
MaxFaults == 1
\* the longest sequence of form keys tried from one state of the form
MaxKeys == 7

----------------------------------------------------------------------------
(* Strings *)

\* char::to_lowercase on ASCII
LowerChar(c) == IF c \in 65..90 THEN c + 32 ELSE c

\* str::to_lowercase
to_lowercase(s) == [i \in 1..Len(s) |-> LowerChar(s[i])]

\* str::contains(&str): pat occurs in s at some offset
contains(s, pat) ==
    \E o \in 0..(Len(s) - Len(pat)) : SubSeq(s, o + 1, o + Len(pat)) = pat

\* Ord for String: lexicographic on bytes
StrLess(a, b) ==
    \E i \in 1..(Len(a) + 1) :
        /\ \A j \in 1..(i - 1) : j <= Len(b) /\ a[j] = b[j]
        /\ \/ (i = Len(a) + 1 /\ Len(b) >= i)
           \/ (i <= Len(a) /\ i <= Len(b) /\ a[i] < b[i])

\* a sort in descending order
RECURSIVE sort_descending(_)
sort_descending(S) ==
    IF S = {} THEN <<>>
    ELSE LET m == CHOOSE x \in S : \A y \in S \ {x} : StrLess(y, x)
         IN  <<m>> \o sort_descending(S \ {m})

RECURSIVE sort(_)
\* Vec<String>::sort of the (distinct) keys of a map
sort(S) ==
    IF S = {} THEN <<>>
    ELSE LET m == CHOOSE x \in S : \A y \in S \ {x} : StrLess(x, y)
         IN  <<m>> \o sort(S \ {m})

\* String::pop
pop(s) == IF Len(s) = 0 THEN s ELSE SubSeq(s, 1, Len(s) - 1)

\* char::is_ascii_digit
is_ascii_digit(c) == c \in 48..57

RECURSIVE DigitsValue(_)
DigitsValue(s) ==
    IF Len(s) = 0 THEN 0 ELSE 10 * DigitsValue(pop(s)) + (s[Len(s)] - 48)

\* str::parse::<u16>() on a string of ASCII digits: None (modelled -1) on
\* empty input or overflow
\* a parse that accepts every digit string
parse_u16_unbounded(s) ==
    IF Len(s) = 0 \/ \E i \in 1..Len(s) : ~is_ascii_digit(s[i]) THEN -1
    ELSE DigitsValue(s)

parse_u16(s) ==
    IF Len(s) = 0 \/ \E i \in 1..Len(s) : ~is_ascii_digit(s[i]) THEN -1
    ELSE IF DigitsValue(s) > 65535 THEN -1
    ELSE DigitsValue(s)

\* Option::None for Option<String>.  A message (status text, error text) is
\* a non-empty tuple of pieces: the literal pieces of its format string and
\* the texts (character codes) formatted into it.
\* A text that starts with "Error" is one whose first piece is L("Error: ").
None == <<>>
L(literal) == [lit |-> literal, txt |-> <<>>]
T(text) == [lit |-> "", txt |-> text]

----------------------------------------------------------------------------
(* Keys (crossterm KeyCode + the CONTROL modifier) *)

Key(code) == [code |-> code, c |-> 0, ctrl |-> FALSE]
Char(c) == [code |-> "Char", c |-> c, ctrl |-> FALSE]
CtrlC == [code |-> "Char", c |-> 99, ctrl |-> TRUE]

Ch_q == Char(113)
Ch_j == Char(106)
Ch_k == Char(107)
Ch_a == Char(97)
Ch_d == Char(100)
Ch_n == Char(110)
Ch_N == Char(78)
Ch_y == Char(121)
Ch_slash == Char(47)
Ch_space == Char(32)
Ch_9 == Char(57)
Ch_3 == Char(51)
Ch_5 == Char(53)
Ch_6 == Char(54)

----------------------------------------------------------------------------
(* enum AppMode, enum Action *)

AppMode == {"List", "Actions", "AddForm", "ProfileSelector", "Connecting",
            "ConfirmDelete", "ConfirmQuit", "Search"}

\* Action::available_actions with the two lists exchanged
available_actions_of_swapped(is_iam) ==
    IF is_iam THEN <<"Connect", "Session", "Delete">>
    ELSE <<"IamConnect", "Session", "Delete">>

available_actions_of(is_iam) ==
    IF is_iam THEN <<"IamConnect", "Session", "Delete">>
    ELSE <<"Connect", "Session", "Delete">>

----------------------------------------------------------------------------
(* struct FormState *)

DefaultPort == <<53, 52, 51, 50>>     \* "5432"

\* #[derive(Default)]
FormDefault ==
    [name |-> <<>>, host |-> <<>>, port |-> <<>>, database |-> <<>>,
     username |-> <<>>, password |-> <<>>, iam |-> FALSE, current_field |-> 0]

FormReset ==
    [name |-> <<>>, host |-> <<>>, port |-> DefaultPort, database |-> <<>>,
     username |-> <<>>, password |-> <<>>, iam |-> FALSE, current_field |-> 0]

Min(a, b) == IF a < b THEN a ELSE b

\* next_field without the jump over the password field
next_field_no_skip(f) ==
    LET max_field == IF f.iam THEN 6 ELSE 7
    IN  [f EXCEPT !.current_field = Min(f.current_field + 1, max_field)]

\* next_field that stops at the password field whatever iam is
next_field_stop_at_6(f) ==
    LET cf == Min(f.current_field + 1, 6)
    IN  [f EXCEPT !.current_field = IF f.iam /\ cf = 6 THEN 7 ELSE cf]

next_field(f) ==
    LET max_field == IF f.iam THEN 6 ELSE 7
        cf == Min(f.current_field + 1, max_field)
    IN  [f EXCEPT !.current_field = IF f.iam /\ cf = 6 THEN 7 ELSE cf]

prev_field(f) ==
    IF f.current_field > 0
    THEN LET cf == f.current_field - 1
         IN  [f EXCEPT !.current_field = IF f.iam /\ cf = 6 THEN 5 ELSE cf]
    ELSE f

handle_char(f, c) ==
    CASE f.current_field = 0 -> [f EXCEPT !.name = Append(@, c)]
      [] f.current_field = 1 -> [f EXCEPT !.host = Append(@, c)]
      [] f.current_field = 2 ->
            IF is_ascii_digit(c) THEN [f EXCEPT !.port = Append(@, c)] ELSE f
      [] f.current_field = 3 -> [f EXCEPT !.database = Append(@, c)]
      [] f.current_field = 4 -> [f EXCEPT !.username = Append(@, c)]
      [] f.current_field = 6 /\ ~f.iam -> [f EXCEPT !.password = Append(@, c)]
      [] OTHER -> f

handle_backspace(f) ==
    CASE f.current_field = 0 -> [f EXCEPT !.name = pop(@)]
      [] f.current_field = 1 -> [f EXCEPT !.host = pop(@)]
      [] f.current_field = 2 -> [f EXCEPT !.port = pop(@)]
      [] f.current_field = 3 -> [f EXCEPT !.database = pop(@)]
      [] f.current_field = 4 -> [f EXCEPT !.username = pop(@)]
      [] f.current_field = 6 /\ ~f.iam -> [f EXCEPT !.password = pop(@)]
      [] OTHER -> f

\* Result<()>: None when Ok, else the error text
\* validate without the password rule
validate_no_password(f) ==
    IF \E t \in {f.name, f.host, f.port, f.database, f.username} : t = <<>>
    THEN <<L("A field is required")>>
    ELSE None

validate(f) ==
    IF f.name = <<>> THEN <<L("Name is required")>>
    ELSE IF f.host = <<>> THEN <<L("Host is required")>>
    ELSE IF f.port = <<>> THEN <<L("Port is required")>>
    ELSE IF f.database = <<>> THEN <<L("Database is required")>>
    ELSE IF f.username = <<>> THEN <<L("Username is required")>>
    ELSE IF ~f.iam /\ f.password = <<>>
         THEN <<L("Password is required for non-IAM connections")>>
    ELSE None

----------------------------------------------------------------------------
(* The world an operation acts on, and the outcomes of fallible calls *)

World == [app |-> app, disk |-> disk, keyring |-> keyring, term |-> term,
          faults |-> faults, calls |-> <<>>, sigint |-> sigint]

\* Result<T>: err = None for Ok(val)
Ok(w) == [w |-> w, err |-> None, val |-> None]
OkVal(w, v) == [w |-> w, err |-> None, val |-> v]
Fail(w, e) == [w |-> w, err |-> e, val |-> None]

\* an injected collaborator failure uses up one of the remaining faults
Faulted(w, e) ==
    IF w.faults > 0 THEN {Fail([w EXCEPT !.faults = @ - 1], e)} ELSE {}

\* HashMap::insert / HashMap::remove
MapInsert(m, k, v) == [x \in DOMAIN m \cup {k} |-> IF x = k THEN v ELSE m[x]]
MapRemove(m, k) == [x \in DOMAIN m \ {k} |-> m[x]]

(* config.rs *)
load_connections(w) ==
    {OkVal(w, w.disk)} \cup Faulted(w, <<L("Could not read connections file")>>)

save_connections(w, connections) ==
    {Ok([w EXCEPT !.disk = connections])}
        \cup Faulted(w, <<L("Could not write connections file")>>)

(* credentials.rs *)
store_password(w, name, password) ==
    {Ok([w EXCEPT !.keyring = MapInsert(@, name, password)])}
        \cup Faulted(w, <<L("Could not store password in keyring")>>)

get_password(w, name) ==
    IF name \in DOMAIN w.keyring
    THEN {OkVal(w, w.keyring[name])}
            \cup Faulted(w, <<L("Could not retrieve password from keyring")>>)
    ELSE {Fail(w, <<L("Could not retrieve password from keyring")>>)}

remove_password(w, name) ==
    IF name \in DOMAIN w.keyring
    THEN {Ok([w EXCEPT !.keyring = MapRemove(@, name)])}
            \cup Faulted(w, <<L("Could not remove password from keyring")>>)
    ELSE {Fail(w, <<L("Could not remove password from keyring")>>)}

----------------------------------------------------------------------------
(* aws.rs *)

\* stderr texts of a failing `aws rds generate-db-auth-token`
ErrLoadingSsoToken ==      \* "Error loading SSO token"
    <<69,114,114,111,114,32,108,111,97,100,105,110,103,32,83,83,79,32,
      116,111,107,101,110>>
ErrTimedOut ==             \* "connection timed out"
    <<99,111,110,110,101,99,116,105,111,110,32,116,105,109,101,100,32,
      111,117,116>>
ErrTokenExpired ==         \* "Token has expired and refresh failed"
    <<84,111,107,101,110,32,104,97,115,32,101,120,112,105,114,101,100,32,
      97,110,100,32,114,101,102,114,101,115,104,32,102,97,105,108,101,100>>
TokenErrors == {ErrLoadingSsoToken, ErrTimedOut, ErrTokenExpired}

\* the markers of needs_sso_login
MarkerSso == <<115,115,111>>                                   \* "sso"
MarkerExpired ==                                               \* "token has expired"
    <<116,111,107,101,110,32,104,97,115,32,101,120,112,105,114,101,100>>
MarkerRefresh ==                                               \* "refresh_token"
    <<114,101,102,114,101,115,104,95,116,111,107,101,110>>
MarkerSession ==                                               \* "the sso session"
    <<116,104,101,32,115,115,111,32,115,101,115,115,105,111,110>>
MarkerLoading ==                                               \* "error loading sso"
    <<101,114,114,111,114,32,108,111,97,100,105,110,103,32,115,115,111>>

\* needs_sso_login that looks for "sso" only
needs_sso_login_sso_only(error_msg) ==
    contains(to_lowercase(error_msg), MarkerSso)

needs_sso_login(error_msg) ==
    LET error_lower == to_lowercase(error_msg)
    IN  \/ contains(error_lower, MarkerSso)
        \/ contains(error_lower, MarkerExpired)
        \/ contains(error_lower, MarkerRefresh)
        \/ contains(error_lower, MarkerSession)
        \/ contains(error_lower, MarkerLoading)

\* "AWS CLI command failed: " as character codes, the prefix bail! puts before stderr
AwsFailedPrefix ==
    <<65,87,83,32,67,76,73,32,99,111,109,109,97,110,100,32,102,97,105,108,
      101,100,58,32>>

\* what the AWS CLI prints on success (opaque)
IamToken == <<116,111,107>>

\* Result<String>: the token, or the error, whose text is one piece
generate_iam_token(w, host, port, username, profile) ==
    {OkVal(w, IamToken)}
        \cup {Fail(w, <<T(AwsFailedPrefix \o e)>>) : e \in TokenErrors}

----------------------------------------------------------------------------
(* struct ConnectionInfo, enum PendingAction *)

ConnectionInfo(host, port, database, username, iam_auth) ==
    [host |-> host, port |-> port, database |-> database,
     username |-> username, iam_auth |-> iam_auth]

NoInfo == ConnectionInfo(<<>>, 0, <<>>, <<>>, FALSE)

\* Option<PendingAction>; profile is an Option<String>: <<>> or <<name>>
NoPending ==
    [kind |-> "None", run |-> "", info |-> NoInfo, secret |-> <<>>,
     profile |-> <<>>]
\* PendingAction::Psql(closure): the closure runs spawn_psql or spawn_session
PendingPsql(run, info, secret) ==
    [kind |-> "Psql", run |-> run, info |-> info, secret |-> secret,
     profile |-> <<>>]
PendingIamConnect(info, profile) ==
    [kind |-> "IamConnect", run |-> "", info |-> info, secret |-> <<>>,
     profile |-> profile]

----------------------------------------------------------------------------
(* impl App *)

\* App::new, given what load_connections and list_aws_profiles returned
AppNew(connections, aws_profiles) ==
    [connections |-> connections,
     connection_names |-> sort(DOMAIN connections),
     selected_index |-> 0,
     mode |-> "List",
     selected_action |-> 0,
     form_state |-> FormDefault,
     aws_profiles |-> aws_profiles,
     selected_profile |-> 0,
     status_message |-> None,
     should_quit |-> FALSE,
     pending_action |-> NoPending,
     search_query |-> <<>>,
     search_matches |-> <<>>,
     search_match_index |-> 0,
     profile_search_query |-> <<>>,
     profile_search_matches |-> <<>>,
     profile_search_active |-> FALSE]

\* reload_connections without the clamp
AdjustSelected_no_clamp(selected_index, len) == selected_index

\* the clamp of reload_connections
AdjustSelected(selected_index, len) ==
    IF selected_index >= len /\ len # 0 THEN len - 1 ELSE selected_index

reload_connections(w) ==
    LET Loaded(o) ==
            IF o.err # None THEN Fail(o.w, o.err)
            ELSE LET names == sort(DOMAIN o.val)
                 IN  Ok([o.w EXCEPT
                            !.app.connections = o.val,
                            !.app.connection_names = names,
                            !.app.selected_index =
                                AdjustSelected(@, Len(names))])
    IN  {Loaded(o) : o \in load_connections(w)}

\* Option<(&String, &ConnectionInfo)> as <<>> or <<name>>
selected_connection(a) ==
    IF a.selected_index < Len(a.connection_names)
       /\ a.connection_names[a.selected_index + 1] \in DOMAIN a.connections
    THEN <<a.connection_names[a.selected_index + 1]>>
    ELSE <<>>

\* index + 1 that stops at the last index instead of wrapping around
WrapNext_saturating(i, len) == Min(i + 1, len - 1)

\* index + 1 with wrap-around, and checked_sub(1).unwrap_or(len - 1)
WrapNext(i, len) == (i + 1) % len
WrapPrev(i, len) == IF i >= 1 THEN i - 1 ELSE len - 1

next_connection(a) ==
    IF a.connection_names # <<>>
    THEN [a EXCEPT !.selected_index = WrapNext(@, Len(a.connection_names))]
    ELSE a

prev_connection(a) ==
    IF a.connection_names # <<>>
    THEN [a EXCEPT !.selected_index = WrapPrev(@, Len(a.connection_names))]
    ELSE a

available_actions(a) ==
    LET sel == selected_connection(a)
    IN  IF sel # <<>>
        THEN available_actions_of(a.connections[sel[1]].iam_auth)
        ELSE <<>>

next_action(a) ==
    LET actions == available_actions(a)
    IN  IF actions # <<>>
        THEN [a EXCEPT !.selected_action = WrapNext(@, Len(actions))]
        ELSE a

prev_action(a) ==
    LET actions == available_actions(a)
    IN  IF actions # <<>>
        THEN [a EXCEPT !.selected_action = WrapPrev(@, Len(actions))]
        ELSE a

next_profile(a) ==
    IF a.aws_profiles # <<>>
    THEN [a EXCEPT !.selected_profile = WrapNext(@, Len(a.aws_profiles))]
    ELSE a

prev_profile(a) ==
    IF a.aws_profiles # <<>>
    THEN [a EXCEPT !.selected_profile = WrapPrev(@, Len(a.aws_profiles))]
    ELSE a

RECURSIVE FilterIndices(_, _, _)
\* names.iter().enumerate().filter(|(_, name)| ...).map(|(i, _)| i).collect(),
\* from 0-based index i on
FilterIndices(names, query, i) ==
    IF i >= Len(names) THEN <<>>
    ELSE (IF contains(to_lowercase(names[i + 1]), query) THEN <<i>> ELSE <<>>)
            \o FilterIndices(names, query, i + 1)

\* the matches with the query compared as typed, not lower-cased
Matches_case_sensitive(names, search_query) ==
    FilterIndices(names, search_query, 0)

\* the matches of update_search_matches and update_profile_search_matches
Matches(names, search_query) ==
    FilterIndices(names, to_lowercase(search_query), 0)

update_search_matches(a) ==
    LET m == Matches(a.connection_names, a.search_query)
    IN  IF m # <<>>
        THEN [a EXCEPT !.search_matches = m,
                       !.search_match_index = 0,
                       !.selected_index = m[1]]
        ELSE [a EXCEPT !.search_matches = m]

next_match(a) ==
    IF a.search_matches # <<>>
    THEN LET i == WrapNext(a.search_match_index, Len(a.search_matches))
         IN  [a EXCEPT !.search_match_index = i,
                       !.selected_index = a.search_matches[i + 1]]
    ELSE a

prev_match(a) ==
    IF a.search_matches # <<>>
    THEN LET i == WrapPrev(a.search_match_index, Len(a.search_matches))
         IN  [a EXCEPT !.search_match_index = i,
                       !.selected_index = a.search_matches[i + 1]]
    ELSE a

\* clear_search that keeps search_match_index
clear_search_keep_index(a) ==
    [a EXCEPT !.search_query = <<>>, !.search_matches = <<>>]

\* clear_search that clears the status message too
clear_search_and_status(a) ==
    [a EXCEPT !.search_query = <<>>,
              !.search_matches = <<>>,
              !.search_match_index = 0,
              !.status_message = None]

clear_search(a) ==
    [a EXCEPT !.search_query = <<>>,
              !.search_matches = <<>>,
              !.search_match_index = 0]

update_profile_search_matches(a) ==
    LET m == Matches(a.aws_profiles, a.profile_search_query)
    IN  IF m # <<>>
        THEN [a EXCEPT !.profile_search_matches = m, !.selected_profile = m[1]]
        ELSE [a EXCEPT !.profile_search_matches = m]

clear_profile_search(a) ==
    [a EXCEPT !.profile_search_query = <<>>,
              !.profile_search_matches = <<>>,
              !.profile_search_active = FALSE]

\* what the Connect / Session arms of execute_action do with the credential
\* lookup `o`: enqueue the closure, or report the error
WithCredential(o, name, info, run, what) ==
    IF o.err = None
    THEN Ok([o.w EXCEPT !.app.pending_action = PendingPsql(run, info, o.val)])
    ELSE Ok([o.w EXCEPT !.app.status_message =
                <<L("Error: "), L("Could not retrieve "), L(what), L(" for '"),
                  T(name), L("': ")>> \o o.err])

\* execute_action whose IamConnect enqueues the connect at once
execute_action_eager(w) ==
    LET a == w.app
        sel == selected_connection(a)
    IN  IF sel = <<>> \/ a.selected_action >= Len(available_actions(a))
        THEN {Ok(w)}
        ELSE IF available_actions(a)[a.selected_action + 1] = "IamConnect"
        THEN {Ok([w EXCEPT !.app.selected_profile = 0,
                           !.app.mode = "ProfileSelector",
                           !.app.pending_action =
                                PendingIamConnect(a.connections[sel[1]], <<>>)])}
        ELSE {Ok([w EXCEPT !.app.mode = "List"])}

execute_action(w) ==
    LET a == w.app
        actions == available_actions(a)
        sel == selected_connection(a)
    IN  IF sel = <<>> THEN {Ok(w)}
        ELSE IF a.selected_action >= Len(actions) THEN {Ok(w)}
        ELSE
        LET name == sel[1]
            info == a.connections[name]
            action == actions[a.selected_action + 1]
            wl == [w EXCEPT !.app.mode = "List"]
        IN  CASE action = "Connect" ->
                    {WithCredential(o, name, info, "spawn_psql", "password")
                        : o \in get_password(wl, name)}
              [] action = "IamConnect" ->
                    {Ok([w EXCEPT !.app.selected_profile = 0,
                                  !.app.mode = "ProfileSelector"])}
              [] action = "Session" ->
                    {WithCredential(o, name, info, "spawn_session", "credentials")
                        : o \in IF info.iam_auth
                                THEN generate_iam_token(wl, info.host, info.port,
                                                        info.username, <<>>)
                                ELSE get_password(wl, name)}
              [] action = "Delete" ->
                    {Ok([w EXCEPT !.app.mode = "ConfirmDelete"])}

\* connect_with_profile that shows the Connecting mode while the token is fetched
connect_with_profile_connecting(w) ==
    LET sel == selected_connection(w.app)
    IN  IF sel = <<>> THEN {Ok(w)}
        ELSE {Ok([w EXCEPT
                    !.app.mode = "Connecting",
                    !.app.pending_action =
                        PendingIamConnect(w.app.connections[sel[1]], <<>>)])}

\* connect_with_profile that always takes the first profile
connect_with_profile_first(w) ==
    LET a == w.app
        sel == selected_connection(a)
    IN  IF sel = <<>> THEN {Ok(w)}
        ELSE {Ok([w EXCEPT
                    !.app.mode = "List",
                    !.app.pending_action =
                        PendingIamConnect(
                            a.connections[sel[1]],
                            IF a.aws_profiles = <<>> THEN <<>>
                            ELSE <<a.aws_profiles[1]>>)])}

connect_with_profile(w) ==
    LET a == w.app
        sel == selected_connection(a)
    IN  IF sel = <<>> THEN {Ok(w)}
        ELSE
        LET info == a.connections[sel[1]]
            profile == IF a.selected_profile < Len(a.aws_profiles)
                       THEN <<a.aws_profiles[a.selected_profile + 1]>>
                       ELSE <<>>
        IN  {Ok([w EXCEPT
                    !.app.mode = "List",
                    !.app.status_message =
                        <<L("Connecting with profile '"),
                          IF profile = <<>> THEN L("default") ELSE T(profile[1]),
                          L("'...")>>,
                    !.app.pending_action = PendingIamConnect(info, profile)])}

retry_iam_connect(a, info, profile) ==
    [a EXCEPT !.status_message = <<L("Retrying IAM connection...")>>,
              !.pending_action = PendingIamConnect(info, profile)]

\* delete_selected_connection that leaves the keyring alone
DeleteAfterSave_keep_secret(s, name) ==
    IF s.err # None THEN {Fail(s.w, s.err)}
    ELSE {IF l.err # None THEN Fail(l.w, l.err)
          ELSE Ok([l.w EXCEPT !.app.status_message =
                        <<L("Connection '"), T(name), L("' deleted")>>])
            : l \in reload_connections(s.w)}

\* the rest of delete_selected_connection once save_connections returned `s`
DeleteAfterSave(s, name) ==
    IF s.err # None THEN {Fail(s.w, s.err)}
    ELSE UNION {
            {IF l.err # None THEN Fail(l.w, l.err)
             ELSE Ok([l.w EXCEPT !.app.status_message =
                        <<L("Connection '"), T(name), L("' deleted")>>])
                : l \in reload_connections(r.w)}    \* let _ = remove_password
            : r \in remove_password(s.w, name)}

delete_selected_connection(w) ==
    LET sel == selected_connection(w.app)
    IN  IF sel = <<>> THEN {Ok(w)}
        ELSE
        LET name == sel[1]
            w1 == [w EXCEPT !.app.connections = MapRemove(@, name)]
        IN  UNION {DeleteAfterSave(s, name)
                    : s \in save_connections(w1, w1.app.connections)}

\* the rest of submit_form once a credential step returned `p`
SubmitAfterStore(p) ==
    IF p.err # None THEN {Fail(p.w, p.err)}
    ELSE {IF l.err # None THEN Fail(l.w, l.err)
          ELSE Ok([l.w EXCEPT !.app.mode = "List",
                              !.app.form_state = FormReset])
            : l \in reload_connections(p.w)}

\* submit_form that never stores the password
SubmitAfterSave_no_store(s, name, password, iam) ==
    IF s.err # None THEN {Fail(s.w, s.err)} ELSE SubmitAfterStore(Ok(s.w))

\* the rest of submit_form once save_connections returned `s`
SubmitAfterSave(s, name, password, iam) ==
    IF s.err # None THEN {Fail(s.w, s.err)}
    ELSE IF ~iam
         THEN UNION {SubmitAfterStore(p) : p \in store_password(s.w, name, password)}
         ELSE SubmitAfterStore(Ok(s.w))

submit_form(w) ==
    LET f == w.app.form_state
        port == parse_u16(f.port)
    IN  IF validate(f) # None THEN {Fail(w, validate(f))}
        ELSE IF port = -1 THEN {Fail(w, <<L("Invalid port number")>>)}
        ELSE
        LET info == ConnectionInfo(f.host, port, f.database, f.username, f.iam)
            w1 == [w EXCEPT !.app.connections = MapInsert(@, f.name, info)]
        IN  UNION {SubmitAfterSave(s, f.name, f.password, f.iam)
                    : s \in save_connections(w1, w1.app.connections)}

----------------------------------------------------------------------------
(* tui/mod.rs: terminal and external processes *)

TermTui == [raw |-> TRUE, alt |-> TRUE]

\* restore_terminal: disable_raw_mode, LeaveAlternateScreen
restore_terminal(w) == [w EXCEPT !.term = [raw |-> FALSE, alt |-> FALSE]]

\* a resume that leaves the terminal as it is
ResumeTui_skipped(w) == w

\* enable_raw_mode, EnterAlternateScreen, terminal.clear
ResumeTui(w) == [w EXCEPT !.term = TermTui]

\* flag::register(SIGINT, flag): the handler stays registered for the rest
\* of the process, the SigId that could unregister it is dropped
register(w) == [w EXCEPT !.sigint = TRUE]

\* the record of an external process: the command, the terminal mode and the
\* SIGINT handling it ran under, and its error (None for success)
Call(w, cmd, e) ==
    [cmd |-> cmd, raw |-> w.term.raw, masked |-> w.sigint, err |-> e]

\* a blocking external process: it runs with the terminal as it is now and
\* exits with success or with the failure `e`
Spawn(w, cmd, e) ==
    {Ok([w EXCEPT !.calls = Append(@, Call(w, cmd, None))]),
     Fail([w EXCEPT !.calls = Append(@, Call(w, cmd, e))], e)}

spawn_psql(w) ==
    Spawn(w, "psql", <<L("psql exited with error code: Some(1)")>>)
spawn_session(w) ==
    Spawn(w, "shell", <<L("Shell session exited with error code: Some(1)")>>)
spawn_psql_iam(w) ==
    Spawn(w, "psql_iam", <<L("psql exited with error code: Some(1)")>>)
spawn_sso_login(w) ==
    Spawn(w, "aws_sso_login",
          <<L("AWS SSO login exited with error code: Some(1)")>>)

\* generate_iam_token as called from the pending-action consumer
SpawnToken(w, info, profile) ==
    {[t EXCEPT !.w.calls = Append(@, Call(w, "aws_token", t.err))]
        : t \in generate_iam_token(w, info.host, info.port, info.username,
                                   profile)}

\* a resume that drops the result of the process
ResumeAndReport_silent(r) == ResumeTui(r.w)

\* `if let Err(e) = result { status_message = "Error: {e}" }` after resuming
ResumeAndReport(r) ==
    LET w == ResumeTui(r.w)
    IN  IF r.err # None
        THEN [w EXCEPT !.app.status_message = <<L("Error: ")>> \o r.err]
        ELSE w

suspend_and_run(w, pending) ==
    LET w1 == register(restore_terminal(w))
    IN  {ResumeAndReport(r)
            : r \in IF pending.run = "spawn_psql" THEN spawn_psql(w1)
                    ELSE spawn_session(w1)}

\* an Err arm that enqueues the retry whatever the login returned
TokenFailed_retry_always(t, info, profile) ==
    IF needs_sso_login(t.err[1].txt)
    THEN {[ResumeTui(r.w) EXCEPT !.app = retry_iam_connect(@, info, profile)]
            : r \in spawn_sso_login(register(t.w))}
    ELSE {[ResumeTui(t.w) EXCEPT !.app.status_message =
                <<L("Error: "), L("Failed to generate IAM token: ")>> \o t.err]}

\* the Err arm of the token match in handle_pending_action
TokenFailed(t, info, profile) ==
    IF needs_sso_login(t.err[1].txt)
    THEN {LET w == ResumeTui(r.w)
          IN  IF r.err = None
              THEN [w EXCEPT !.app = retry_iam_connect(
                        [@ EXCEPT !.status_message =
                            <<L("SSO login successful. Retrying connection...")>>],
                        info, profile)]
              ELSE [w EXCEPT !.app.status_message =
                        <<L("SSO login failed: ")>> \o r.err]
            : r \in spawn_sso_login(register(t.w))}
    ELSE {[ResumeTui(t.w) EXCEPT !.app.status_message =
                <<L("Error: "), L("Failed to generate IAM token: ")>> \o t.err]}

\* the set of worlds handle_pending_action can leave
handle_pending_action(w, pending) ==
    IF pending.kind = "Psql" THEN suspend_and_run(w, pending)
    ELSE
    LET w1 == restore_terminal(w)
    IN  UNION {IF t.err = None
               THEN {ResumeAndReport(r) : r \in spawn_psql_iam(register(t.w))}
               ELSE TokenFailed(t, pending.info, pending.profile)
                : t \in SpawnToken(w1, pending.info, pending.profile)}

----------------------------------------------------------------------------
(* tui/mod.rs: the input handlers *)

IsChar(k, c) == k.code = "Char" /\ k.c = c.c

handle_list_input(w, k) ==
    LET a == w.app
    IN  CASE IsChar(k, Ch_q) -> {Ok([w EXCEPT !.app.mode = "ConfirmQuit"])}
          [] IsChar(k, Ch_j) \/ k.code = "Down" ->
                {Ok([w EXCEPT !.app = next_connection(a)])}
          [] IsChar(k, Ch_k) \/ k.code = "Up" ->
                {Ok([w EXCEPT !.app = prev_connection(a)])}
          [] k.code = "Enter" ->
                IF a.connection_names # <<>>
                THEN {Ok([w EXCEPT !.app.mode = "Actions",
                                   !.app.selected_action = 0])}
                ELSE {Ok(w)}
          [] IsChar(k, Ch_a) ->
                {Ok([w EXCEPT !.app.mode = "AddForm",
                              !.app.form_state = FormReset])}
          [] IsChar(k, Ch_d) ->
                IF a.connection_names # <<>>
                THEN {Ok([w EXCEPT !.app.mode = "ConfirmDelete"])}
                ELSE {Ok(w)}
          [] IsChar(k, Ch_slash) ->
                {Ok([w EXCEPT !.app = [clear_search(a) EXCEPT !.mode = "Search"]])}
          [] IsChar(k, Ch_n) -> {Ok([w EXCEPT !.app = next_match(a)])}
          [] IsChar(k, Ch_N) -> {Ok([w EXCEPT !.app = prev_match(a)])}
          [] k.code = "Esc" -> {Ok([w EXCEPT !.app = clear_search(a)])}
          [] OTHER -> {Ok(w)}

handle_actions_input(w, k) ==
    LET a == w.app
    IN  CASE k.code = "Esc" -> {Ok([w EXCEPT !.app.mode = "List"])}
          [] IsChar(k, Ch_j) \/ k.code = "Down" ->
                {Ok([w EXCEPT !.app = next_action(a)])}
          [] IsChar(k, Ch_k) \/ k.code = "Up" ->
                {Ok([w EXCEPT !.app = prev_action(a)])}
          [] k.code = "Enter" -> execute_action(w)
          [] OTHER -> {Ok(w)}

\* the Enter arm of handle_form_input
FormEnter(w) ==
    IF w.app.form_state.current_field = 6
    THEN {IF r.err # None
          THEN Ok([r.w EXCEPT !.app.status_message = <<L("Error: ")>> \o r.err])
          ELSE Ok([r.w EXCEPT !.app.status_message =
                        <<L("Connection added successfully")>>])
            : r \in submit_form(w)}
    ELSE {Ok(w)}

handle_form_input(w, k) ==
    LET f == w.app.form_state
    IN  CASE k.code = "Esc" ->
                {Ok([w EXCEPT !.app.mode = "List", !.app.form_state = FormReset])}
          [] k.code = "Tab" -> {Ok([w EXCEPT !.app.form_state = next_field(f)])}
          [] k.code = "BackTab" -> {Ok([w EXCEPT !.app.form_state = prev_field(f)])}
          [] k.code = "Enter" -> FormEnter(w)
          [] IsChar(k, Ch_space) /\ f.current_field = 5 ->
                {Ok([w EXCEPT !.app.form_state.iam = ~f.iam])}
          [] k.code = "Char" -> {Ok([w EXCEPT !.app.form_state = handle_char(f, k.c)])}
          [] k.code = "Backspace" ->
                {Ok([w EXCEPT !.app.form_state = handle_backspace(f)])}
          [] OTHER -> {Ok(w)}

handle_profile_input(w, k) ==
    LET a == w.app
    IN  IF a.profile_search_active
        THEN CASE k.code = "Esc" -> {Ok([w EXCEPT !.app = clear_profile_search(a)])}
               [] k.code = "Enter" ->
                    {Ok([w EXCEPT !.app.profile_search_active = FALSE])}
               [] k.code = "Backspace" ->
                    {Ok([w EXCEPT !.app = update_profile_search_matches(
                            [a EXCEPT !.profile_search_query = pop(@)])])}
               [] k.code = "Char" ->
                    {Ok([w EXCEPT !.app = update_profile_search_matches(
                            [a EXCEPT !.profile_search_query = Append(@, k.c)])])}
               [] OTHER -> {Ok(w)}
        ELSE CASE k.code = "Esc" ->
                    {Ok([w EXCEPT !.app =
                            [clear_profile_search(a) EXCEPT !.mode = "List"]])}
               [] IsChar(k, Ch_j) \/ k.code = "Down" ->
                    {Ok([w EXCEPT !.app = next_profile(a)])}
               [] IsChar(k, Ch_k) \/ k.code = "Up" ->
                    {Ok([w EXCEPT !.app = prev_profile(a)])}
               [] k.code = "Enter" ->
                    connect_with_profile([w EXCEPT !.app = clear_profile_search(a)])
               [] IsChar(k, Ch_slash) ->
                    {Ok([w EXCEPT !.app.profile_search_query = <<>>,
                                  !.app.profile_search_matches = <<>>,
                                  !.app.profile_search_active = TRUE])}
               [] OTHER -> {Ok(w)}

handle_confirm_delete_input(w, k) ==
    CASE k.code = "Esc" \/ IsChar(k, Ch_n) -> {Ok([w EXCEPT !.app.mode = "List"])}
      [] IsChar(k, Ch_y) \/ k.code = "Enter" ->
            {IF r.err # None THEN r ELSE Ok([r.w EXCEPT !.app.mode = "List"])
                : r \in delete_selected_connection(w)}
      [] OTHER -> {Ok(w)}

\* handle_confirm_quit_input whose cancel keys do nothing
handle_confirm_quit_input_no_cancel(w, k) ==
    CASE IsChar(k, Ch_y) \/ k.code = "Enter" \/ IsChar(k, Ch_q) ->
            {Ok([w EXCEPT !.app.should_quit = TRUE])}
      [] OTHER -> {Ok(w)}

handle_confirm_quit_input(w, k) ==
    CASE k.code = "Esc" \/ IsChar(k, Ch_n) -> {Ok([w EXCEPT !.app.mode = "List"])}
      [] IsChar(k, Ch_y) \/ k.code = "Enter" \/ IsChar(k, Ch_q) ->
            {Ok([w EXCEPT !.app.should_quit = TRUE])}
      [] OTHER -> {Ok(w)}

\* handle_search_input whose Enter clears the search as Esc does
handle_search_input_enter_clears(w, k) ==
    LET a == w.app
    IN  CASE k.code \in {"Esc", "Enter"} ->
                {Ok([w EXCEPT !.app = [clear_search(a) EXCEPT !.mode = "List"]])}
          [] k.code = "Backspace" ->
                {Ok([w EXCEPT !.app = update_search_matches(
                        [a EXCEPT !.search_query = pop(@)])])}
          [] k.code = "Char" ->
                {Ok([w EXCEPT !.app = update_search_matches(
                        [a EXCEPT !.search_query = Append(@, k.c)])])}
          [] OTHER -> {Ok(w)}

handle_search_input(w, k) ==
    LET a == w.app
    IN  CASE k.code = "Esc" ->
                {Ok([w EXCEPT !.app = [clear_search(a) EXCEPT !.mode = "List"]])}
          [] k.code = "Enter" -> {Ok([w EXCEPT !.app.mode = "List"])}
          [] k.code = "Backspace" ->
                {Ok([w EXCEPT !.app = update_search_matches(
                        [a EXCEPT !.search_query = pop(@)])])}
          [] k.code = "Char" ->
                {Ok([w EXCEPT !.app = update_search_matches(
                        [a EXCEPT !.search_query = Append(@, k.c)])])}
          [] OTHER -> {Ok(w)}

----------------------------------------------------------------------------
(* tui/mod.rs: run_app *)

Dispatch(w, k) ==
    CASE w.app.mode = "List" -> handle_list_input(w, k)
      [] w.app.mode = "Actions" -> handle_actions_input(w, k)
      [] w.app.mode = "AddForm" -> handle_form_input(w, k)
      [] w.app.mode = "ProfileSelector" -> handle_profile_input(w, k)
      [] w.app.mode = "Connecting" -> {Ok(w)}
      [] w.app.mode = "ConfirmDelete" -> handle_confirm_delete_input(w, k)
      [] w.app.mode = "ConfirmQuit" -> handle_confirm_quit_input(w, k)
      [] w.app.mode = "Search" -> handle_search_input(w, k)

Running(w) == [w |-> w, exit |-> "running"]

\* a loop body that does not test should_quit
AfterHandler_no_quit_check(o) ==
    IF o.err # None THEN {[w |-> o.w, exit |-> "error"]}
    ELSE IF o.w.app.pending_action.kind # "None"
    THEN {Running(w2)
            : w2 \in handle_pending_action(
                        [o.w EXCEPT !.app.pending_action = NoPending],
                        o.w.app.pending_action)}
    ELSE {Running(o.w)}

\* what follows the handler in the loop body: `?`, should_quit, pending_action.take()
AfterHandler(o) ==
    IF o.err # None THEN {[w |-> o.w, exit |-> "error"]}
    ELSE IF o.w.app.should_quit THEN {[w |-> o.w, exit |-> "quit"]}
    ELSE IF o.w.app.pending_action.kind # "None"
    THEN {Running(w2)
            : w2 \in handle_pending_action(
                        [o.w EXCEPT !.app.pending_action = NoPending],
                        o.w.app.pending_action)}
    ELSE {Running(o.w)}

\* run_app without the `continue` after the Ctrl+C override
run_app_no_continue(w, k) ==
    LET w1 == IF k.code = "Char" /\ k.c = 99 /\ k.ctrl
              THEN [w EXCEPT !.app.mode = "ConfirmQuit"] ELSE w
    IN  UNION {AfterHandler(o) : o \in Dispatch(w1, k)}

\* one iteration of the loop that reads the key press k
run_app(w, k) ==
    IF k.code = "Char" /\ k.c = 99 /\ k.ctrl
    THEN {Running([w EXCEPT !.app.mode = "ConfirmQuit"])}
    ELSE UNION {AfterHandler(o) : o \in Dispatch(w, k)}

----------------------------------------------------------------------------
(* The user: which keys are pressed, and what is typed *)

AllChars == {Ch_q, Ch_j, Ch_k, Ch_a, Ch_d, Ch_n, Ch_N, Ch_y, Ch_slash,
             Ch_space, Ch_9, Ch_3, Ch_5, Ch_6}
AllKeys ==
    AllChars \cup {Key("Enter"), Key("Esc"), Key("Tab"), Key("BackTab"),
                   Key("Backspace"), Key("Up"), Key("Down"), Key("F1")}

\* the texts of a form, by field index + 1 (field 5 is the checkbox)
FormTexts(f) ==
    <<f.name, f.host, f.port, f.database, f.username, <<>>, f.password>>

\* the form is filled top to bottom: behind an empty text field (the port,
\* which has a default, aside) every text field is empty
FilledInOrder(f) ==
    LET t == <<f.name, f.host, f.database, f.username, f.password>>
    IN  \A i \in 1..4 : t[i] = <<>> => t[i + 1] = <<>>

\* the user u can leave the form as g: each text is one of the texts
\* u.texts[field + 1] that this user types into the field
FormTyped(u, g) ==
    /\ \A i \in {1, 2, 3, 4, 5, 7} : FormTexts(g)[i] \in u.texts[i]
    /\ FilledInOrder(g)

\* A user u presses key k in world w.  Commands come from u.keys[mode];
\* text is typed a character at a time: search queries of at most MaxQuery
\* characters of u.search_chars (u.profile_chars), and form fields as
\* FormTyped says.
Offered(u, w, k) ==
    LET a == w.app
        f == a.form_state
    IN  CASE k.code = "Char" /\ a.mode = "Search" ->
                k.c \in u.search_chars /\ Len(a.search_query) < MaxQuery
          [] k.code = "Char" /\ a.mode = "ProfileSelector"
                /\ a.profile_search_active ->
                k.c \in u.profile_chars /\ Len(a.profile_search_query) < MaxQuery
          [] k.code = "Char" /\ a.mode = "AddForm"
                /\ ~(IsChar(k, Ch_space) /\ f.current_field = 5)
                /\ handle_char(f, k.c) # f ->
                FormTyped(u, handle_char(f, k.c))
          [] k.code = "Backspace" /\ a.mode = "AddForm" ->
                k \in u.keys[a.mode] /\ FormTyped(u, handle_backspace(f))
          [] OTHER -> k \in u.keys[a.mode]

Step(k) ==
    \E r \in run_app(World, k) :
        /\ app' = r.w.app
        /\ disk' = r.w.disk
        /\ keyring' = r.w.keyring
        /\ term' = r.w.term
        /\ faults' = r.w.faults
        /\ calls' = r.w.calls
        /\ sigint' = r.w.sigint
        /\ exit' = r.exit

\* the loop reads a key press while the mode is `mode`
Input(u, mode) ==
    /\ exit = "running"
    /\ app.mode = mode
    /\ \E k \in AllKeys : Offered(u, World, k) /\ Step(k)

\* the loop reads Ctrl+C
PressCtrlC(u) ==
    /\ exit = "running"
    /\ app.mode \in u.ctrlc
    /\ Step(CtrlC)

----------------------------------------------------------------------------
(* The state after construction *)

Str_N == <<78>>
Str_Nn == <<78, 110>>
Str_a == <<97>>
Str_n == <<110>>
Str_y == <<121>>
Str_default == <<100, 101, 102, 97, 117, 108, 116>>
Str_Dan == <<68, 97, 110>>
Str_54329 == <<53, 52, 51, 50, 57>>
Str_543299 == <<53, 52, 51, 50, 57, 57>>

InfoPw == ConnectionInfo(Str_a, 5432, Str_a, Str_a, FALSE)
InfoIam == ConnectionInfo(Str_a, 5432, Str_a, Str_a, TRUE)

\* connections.json with three records, "Nn" authenticating with IAM, and
\* the keyring that goes with it
Disk3 == [x \in {Str_N, Str_Nn, Str_a} |-> IF x = Str_Nn THEN InfoIam ELSE InfoPw]
Keyring3 == [x \in {Str_N, Str_a} |-> Str_y]

\* two records; the keyring lost the password of "a"
Disk2 == [x \in {Str_Nn, Str_a} |-> IF x = Str_Nn THEN InfoIam ELSE InfoPw]
Keyring2 == [x \in {} |-> Str_y]

\* one record
Disk1 == [x \in {Str_N} |-> InfoPw]
Keyring1 == [x \in {Str_N} |-> Str_y]

Profiles == <<Str_default, Str_Dan>>

InitWith(d, kr, n) ==
    /\ disk = d
    /\ keyring = kr
    /\ app = AppNew(d, Profiles)
    /\ term = TermTui
    /\ faults = n
    /\ exit = "running"
    /\ calls = <<>>
    /\ sigint = FALSE

\* the same with no profile in ~/.aws/credentials and ~/.aws/config
InitNoProfiles(d, kr, n) ==
    /\ disk = d
    /\ keyring = kr
    /\ app = AppNew(d, <<>>)
    /\ term = TermTui
    /\ faults = n
    /\ exit = "running"
    /\ calls = <<>>
    /\ sigint = FALSE

NoTexts == <<{<<>>}, {<<>>}, {DefaultPort}, {<<>>}, {<<>>}, {<<>>}, {<<>>}>>
NoKeys == [m \in AppMode |-> {}]

----------------------------------------------------------------------------
(* Spec: a user who browses the list and connects *)

Browser ==
    [keys |-> [NoKeys EXCEPT
        !["List"] = {Ch_q, Ch_j, Ch_k, Ch_a, Ch_d, Ch_slash, Key("Enter"),
                     Key("Esc"), Key("F1")},
        !["Actions"] = {Ch_j, Ch_k, Key("Enter"), Key("Esc"), Key("F1")},
        !["AddForm"] = {Key("Esc"), Key("Enter")},
        !["ProfileSelector"] = {Ch_j, Ch_k, Ch_slash, Key("Enter"), Key("Esc"),
                                Key("Backspace")},
        !["ConfirmDelete"] = {Ch_n, Ch_y, Key("Esc"), Key("F1")},
        !["ConfirmQuit"] = {Ch_n, Ch_y, Ch_q, Key("Esc"), Key("Enter"), Key("F1")},
        !["Search"] = {Key("Esc"), Key("Enter")}],
     ctrlc |-> AppMode,
     search_chars |-> {},
     profile_chars |-> {Ch_n.c},
     texts |-> NoTexts]

Init == InitWith(Disk2, Keyring2, 0)

Next ==
    \/ PressCtrlC(Browser)
    \/ Input(Browser, "List")
    \/ Input(Browser, "Actions")
    \/ Input(Browser, "AddForm")
    \/ Input(Browser, "ProfileSelector")
    \/ Input(Browser, "ConfirmDelete")
    \/ Input(Browser, "ConfirmQuit")
    \/ Input(Browser, "Search")

Spec == Init /\ [][Next]_vars

----------------------------------------------------------------------------
(* SpecSearch: a user who searches the list and deletes *)

Searcher ==
    [keys |-> [NoKeys EXCEPT
        !["List"] = {Ch_q, Ch_j, Ch_k, Ch_d, Ch_slash, Ch_n, Ch_N, Key("Esc"),
                     Key("Up"), Key("Down")},
        !["ConfirmDelete"] = {Ch_n, Ch_y, Key("Enter")},
        !["ConfirmQuit"] = {Ch_y, Key("Esc")},
        !["Search"] = {Key("Esc"), Key("Enter"), Key("Backspace"), Key("F1")}],
     ctrlc |-> {"Search", "ConfirmDelete"},
     search_chars |-> {Ch_n.c, Ch_N.c},
     profile_chars |-> {},
     texts |-> NoTexts]

InitSearch == InitWith(Disk3, Keyring3, MaxFaults)

NextSearch ==
    \/ PressCtrlC(Searcher)
    \/ Input(Searcher, "List")
    \/ Input(Searcher, "ConfirmDelete")
    \/ Input(Searcher, "ConfirmQuit")
    \/ Input(Searcher, "Search")

SpecSearch == InitSearch /\ [][NextSearch]_vars

----------------------------------------------------------------------------
(* SpecForm: a user who adds connections *)

Adder ==
    [keys |-> [NoKeys EXCEPT
        !["List"] = {Ch_q, Ch_a, Ch_j},
        !["AddForm"] = {Key("Tab"), Key("BackTab"), Key("Esc"), Key("Enter"),
                        Key("Backspace"), Ch_space, Key("F1")},
        !["ConfirmQuit"] = {Ch_y, Ch_n}],
     ctrlc |-> {"AddForm"},
     search_chars |-> {},
     profile_chars |-> {},
     texts |-> <<{<<>>, Str_n}, {<<>>, Str_a},
                 {DefaultPort, Str_54329, Str_543299},
                 {<<>>, Str_a}, {<<>>, Str_a}, {<<>>}, {<<>>, Str_y}>>]

InitForm == InitWith(Disk1, Keyring1, MaxFaults)

NextForm ==
    \/ PressCtrlC(Adder)
    \/ Input(Adder, "List")
    \/ Input(Adder, "AddForm")
    \/ Input(Adder, "ConfirmQuit")

SpecForm == InitForm /\ [][NextForm]_vars

----------------------------------------------------------------------------
(* SpecConnect: a user who connects, with a password and with IAM *)

Connector ==
    [keys |-> [NoKeys EXCEPT
        !["List"] = {Ch_j, Key("Enter"), Key("F1")},
        !["Actions"] = {Ch_j, Key("Enter"), Key("Esc")},
        !["ProfileSelector"] = {Ch_j, Key("Enter"), Key("Esc")},
        !["ConfirmDelete"] = {Ch_y, Key("Esc")},
        !["ConfirmQuit"] = {Ch_n}],
     ctrlc |-> {"List"},
     search_chars |-> {},
     profile_chars |-> {},
     texts |-> NoTexts]

InitConnect ==
    \/ InitWith(Disk3, Keyring3, MaxFaults)
    \/ InitNoProfiles(Disk3, Keyring3, MaxFaults)

NextConnect ==
    \/ PressCtrlC(Connector)
    \/ Input(Connector, "List")
    \/ Input(Connector, "Actions")
    \/ Input(Connector, "ProfileSelector")
    \/ Input(Connector, "ConfirmDelete")
    \/ Input(Connector, "ConfirmQuit")

SpecConnect == InitConnect /\ [][NextConnect]_vars

----------------------------------------------------------------------------
(* SpecFill: a user who fills in the form, retyping the port *)

Str_65535 == <<54, 53, 53, 51, 53>>
Str_65536 == <<54, 53, 53, 51, 54>>

\* the port texts on the way from the default to 65535 and 65536
PortTexts ==
    {SubSeq(DefaultPort, 1, n) : n \in 0..Len(DefaultPort)}
        \cup {SubSeq(Str_65535, 1, n) : n \in 1..5} \cup {Str_65536}

Filler ==
    [keys |-> [NoKeys EXCEPT
        !["List"] = {Ch_a},
        !["AddForm"] = {Key("Tab"), Key("BackTab"), Key("Enter"),
                        Key("Backspace")}],
     ctrlc |-> {},
     search_chars |-> {},
     profile_chars |-> {},
     texts |-> <<{<<>>, Str_n}, {<<>>, Str_a}, PortTexts,
                 {<<>>, Str_a}, {<<>>, Str_a}, {<<>>}, {<<>>, Str_y}>>]

InitFill == InitWith(Disk1, Keyring1, 0)

NextFill ==
    \/ Input(Filler, "List")
    \/ Input(Filler, "AddForm")

SpecFill == InitFill /\ [][NextFill]_vars

----------------------------------------------------------------------------
(* Properties *)

\* What the loop does when it reads the key press k in the current state:
\* every outcome r of the iteration (the world r.w it leaves and how the loop
\* goes on, r.exit) satisfies P.  Stated on the reachable states, so that an
\* iteration that wrongly changes nothing is seen as well.
OnKey(k, P(_)) ==
    exit = "running" =>
        /\ run_app(World, k) # {}
        /\ \A r \in run_app(World, k) : P(r)

StartsWithError(msg) == msg # None /\ msg[1] = L("Error: ")

\* C1: mode is always one of the eight values of AppMode, and it is never
\* Connecting.
C1_ModeNeverConnecting ==
    app.mode \in AppMode /\ app.mode # "Connecting"

\* an IAM connect went through the pending-action consumer, the place where
\* a Connecting mode would show
C1_Witness ==
    /\ \E i \in 1..Len(calls) : calls[i].cmd = "aws_token"
    /\ app.mode = "List"

\* C2: an iteration that reads Ctrl+C sets mode to ConfirmQuit and changes
\* nothing else of the App, the stores, the terminal or the loop, and runs
\* nothing.
C2_CtrlCOnlySetsMode ==
    OnKey(CtrlC, LAMBDA r :
        /\ r.w.app = [app EXCEPT !.mode = "ConfirmQuit"]
        /\ r.w.disk = disk
        /\ r.w.keyring = keyring
        /\ r.w.term = term
        /\ r.w.faults = faults
        /\ r.w.calls = <<>>
        /\ r.w.sigint = sigint
        /\ r.exit = "running")

\* ConfirmQuit entered from the search sub-mode of the profile selector, with
\* a query typed: only Ctrl+C leads there
C2_Witness ==
    /\ app.mode = "ConfirmQuit"
    /\ app.profile_search_active
    /\ app.profile_search_query # <<>>

\* C3: in ConfirmQuit, Esc or n sets mode to List and leaves should_quit
\* false; y, Enter or q sets should_quit.
C3_ConfirmQuitKeys ==
    app.mode = "ConfirmQuit" =>
        /\ \A k \in {Key("Esc"), Ch_n} :
                OnKey(k, LAMBDA r :
                    r.w.app.mode = "List" /\ ~r.w.app.should_quit)
        /\ \A k \in {Ch_y, Key("Enter"), Ch_q} :
                OnKey(k, LAMBDA r : r.w.app.should_quit)

\* back in List after a cancelled quit that interrupted the profile search:
\* the mode ConfirmQuit was entered from is not restored
C3_Witness ==
    /\ app.mode = "List"
    /\ app.profile_search_active
    /\ ~app.should_quit

\* the keys of the form the claim names: Tab, Shift-Tab, space, characters,
\* backspace, Enter
FormEditKeys == AllKeys \ {Key("Esc"), Key("Up"), Key("Down"), Key("F1")}

\* C4: when iam is set the focus is never on the password field (6), and
\* none of the form's keys Tab, Shift-Tab, space, characters, backspace and
\* Enter changes the password while iam is set.
C4_IamSkipsPassword ==
    /\ app.form_state.iam => app.form_state.current_field # 6
    /\ (app.mode = "AddForm" /\ app.form_state.iam) =>
            \A k \in FormEditKeys :
                OnKey(k, LAMBDA r :
                    r.w.app.form_state.password = app.form_state.password)

\* iam set with a password typed before, and the focus moved past field 6
C4_Witness ==
    /\ app.mode = "AddForm"
    /\ app.form_state.iam
    /\ app.form_state.password # <<>>
    /\ app.form_state.current_field = 7

\* C5: with iam clear, Tab moves the focus from i to i+1 and stays at 7,
\* Shift-Tab moves it from i to i-1 and stays at 0; the focus is in 0..7.
C5_FieldOrder ==
    LET i == app.form_state.current_field
    IN  /\ i \in 0..7
        /\ (app.mode = "AddForm" /\ ~app.form_state.iam) =>
            /\ OnKey(Key("Tab"), LAMBDA r :
                    r.w.app.form_state.current_field
                        = (IF i < 7 THEN i + 1 ELSE 7))
            /\ OnKey(Key("BackTab"), LAMBDA r :
                    r.w.app.form_state.current_field
                        = (IF i > 0 THEN i - 1 ELSE 0))

\* the last field reached with iam clear
C5_Witness ==
    /\ app.mode = "AddForm"
    /\ ~app.form_state.iam
    /\ app.form_state.current_field = 7

\* two characters are the same letter, case aside
SameLetter(c, d) ==
    \/ c = d
    \/ (c \in 65..90 /\ d = c + 32)
    \/ (d \in 65..90 /\ c = d + 32)

\* query occurs in name at some position, case aside
OccursIn(query, name) ==
    \E p \in 1..(Len(name) + 1) :
        \A j \in 1..Len(query) :
            p + j - 1 <= Len(name) /\ SameLetter(name[p + j - 1], query[j])

\* m lists, in ascending order, exactly the indices of the names the query
\* occurs in
ExactMatches(m, names, query) ==
    /\ \A i \in 1..Len(m) : m[i] \in 0..(Len(names) - 1)
    /\ \A i \in 1..(Len(m) - 1) : m[i] < m[i + 1]
    /\ \A i \in 0..(Len(names) - 1) :
            OccursIn(query, names[i + 1]) <=> (\E x \in 1..Len(m) : m[x] = i)

\* C6: after an edit of the search query (a character or a backspace in
\* Search mode) that leaves it non-empty, search_matches is exactly the
\* ascending list of the indices of the names containing the query, case
\* aside.
C6_MatchesExact ==
    app.mode = "Search" =>
        \A k \in AllChars \cup {Key("Backspace")} :
            OnKey(k, LAMBDA r :
                r.w.app.search_query # <<>> =>
                    ExactMatches(r.w.app.search_matches,
                                 r.w.app.connection_names,
                                 r.w.app.search_query))

\* an upper-case query that matched two names by their lower-case letter
C6_Witness ==
    /\ app.mode = "Search"
    /\ app.search_query = Str_N
    /\ app.search_matches = <<0, 1>>
    /\ Len(app.connection_names) = 3

RECURSIVE NextMatchTimes(_, _)
\* next_match applied n times
NextMatchTimes(a, n) ==
    IF n = 0 THEN a ELSE NextMatchTimes(next_match(a), n - 1)

\* C7, as claimed: with a non-empty query that has matches, next_match
\* applied N times, N the number of connection names, brings
\* search_match_index back.
C7_CycleByNames ==
    (/\ app.search_query # <<>>
     /\ app.search_matches # <<>>
     /\ ExactMatches(app.search_matches, app.connection_names,
                     app.search_query))
    => NextMatchTimes(app, Len(app.connection_names)).search_match_index
            = app.search_match_index

\* C7, amended: with a non-empty query that has matches, next_match applied
\* M times, M the number of matches, brings search_match_index back.
C7_CycleByMatches ==
    (app.search_query # <<>> /\ app.search_matches # <<>>)
    => NextMatchTimes(app, Len(app.search_matches)).search_match_index
            = app.search_match_index

\* n pressed once in List: the second of two matches is the current one
C7_Witness ==
    /\ app.mode = "List"
    /\ app.search_query # <<>>
    /\ Len(app.search_matches) = 2
    /\ app.search_match_index = 1
    /\ Len(app.connection_names) = 3

\* C8: confirming the deletion of the selected connection when it is the
\* last of the name list leaves selected_index at len-1 of the shrunken
\* list, or at 0 when the list became empty; and whether or not the list
\* shrank (a store may fail), selected_index is below the length of a
\* non-empty list right after.
C8_DeleteLastClamps ==
    (/\ app.mode = "ConfirmDelete"
     /\ selected_connection(app) # <<>>
     /\ app.selected_index = Len(app.connection_names) - 1)
    => \A k \in {Ch_y, Key("Enter")} :
            OnKey(k, LAMBDA r :
                LET n == Len(r.w.app.connection_names)
                IN  /\ (n < Len(app.connection_names) /\ n > 0) =>
                            r.w.app.selected_index = n - 1
                    /\ n = 0 => r.w.app.selected_index = 0
                    /\ n > 0 => r.w.app.selected_index < n)

\* "a", the last of three names, was deleted and the selection moved from
\* index 2 to index 1
C8_Witness ==
    /\ app.mode = "List"
    /\ app.status_message = <<L("Connection '"), T(Str_a), L("' deleted")>>
    /\ Len(app.connection_names) = 2
    /\ app.selected_index = 1

\* C9: whenever the name list is non-empty, selected_index is below its
\* length.
C9_SelectedInBounds ==
    app.connection_names # <<>> =>
        app.selected_index < Len(app.connection_names)

\* names holds the elements of S in ascending order
SortedListOf(names, S) ==
    /\ Len(names) = Cardinality(S)
    /\ {names[i] : i \in 1..Len(names)} = S
    /\ \A i \in 1..(Len(names) - 1) : StrLess(names[i], names[i + 1])

\* C10: Enter on a complete form with iam clear, a valid port and no store
\* failing leaves the record in connections.json with password
\* authentication, the typed password in the keyring under the name, the
\* cached map and name list as loaded from the file, the form reset, mode
\* List and the success message, which does not start with "Error".
C10_SubmitPersists ==
    LET f == app.form_state
    IN  (/\ app.mode = "AddForm"
         /\ f.current_field = 6
         /\ ~f.iam
         /\ \A t \in {f.name, f.host, f.port, f.database, f.username,
                      f.password} : t # <<>>
         /\ parse_u16(f.port) \in 0..65535)
        => OnKey(Key("Enter"), LAMBDA r :
                r.w.faults = faults =>
                    /\ f.name \in DOMAIN r.w.disk
                    /\ r.w.disk[f.name] =
                            ConnectionInfo(f.host, parse_u16(f.port), f.database,
                                           f.username, FALSE)
                    /\ f.name \in DOMAIN r.w.keyring
                    /\ r.w.keyring[f.name] = f.password
                    /\ r.w.app.connections = r.w.disk
                    /\ SortedListOf(r.w.app.connection_names, DOMAIN r.w.disk)
                    /\ r.w.app.form_state = FormReset
                    /\ r.w.app.mode = "List"
                    /\ r.w.app.status_message =
                            <<L("Connection added successfully")>>
                    /\ ~StartsWithError(r.w.app.status_message)
                    /\ r.exit = "running")

\* "n" was added with the password "y"
C10_Witness ==
    /\ app.mode = "List"
    /\ app.status_message = <<L("Connection added successfully")>>
    /\ Str_n \in DOMAIN disk
    /\ ~disk[Str_n].iam_auth
    /\ Str_n \in DOMAIN keyring
    /\ keyring[Str_n] = Str_y
    /\ app.connection_names = <<Str_N, Str_n>>

----------------------------------------------------------------------------
(* The IAM connect flow *)

\* the error text contains one of the credential-expiry markers, case aside
HasExpiryMarker(text) ==
    \E m \in {MarkerSso, MarkerExpired, MarkerRefresh, MarkerSession,
               MarkerLoading} : OccursIn(m, text)

\* in the sequence c of external processes, number i is a token issuance
\* that failed, with or without an expiry marker in its error text
TokenFailedAt(c, i) == c[i].cmd = "aws_token" /\ c[i].err # None
ExpiryAt(c, i) == TokenFailedAt(c, i) /\ HasExpiryMarker(c[i].err[1].txt)
LoginOkAt(c, i) == c[i].cmd = "aws_sso_login" /\ c[i].err = None

\* C11: when a token issuance fails with an expiry marker and the login that
\* follows succeeds, the same loop iteration (no further key press) attempts
\* the token again, and runs the database client when that attempt succeeds.
C11_RetryWithoutInput ==
    \A i \in 2..Len(calls) :
        (ExpiryAt(calls, i - 1) /\ LoginOkAt(calls, i)) =>
            /\ i < Len(calls)
            /\ calls[i + 1].cmd = "aws_token"
            /\ calls[i + 1].err = None =>
                    (i + 1 < Len(calls) /\ calls[i + 2].cmd = "psql_iam")

\* C12: one IAM connect of the user runs the login at most once.  A pending
\* IamConnect at a poll is a retry, enqueued after the one login of that
\* connect; a key that starts no connect of its own (F1, j) then consumes
\* it, and may attempt the token a second time but not run the login again.
C12_OneLoginPerConnect ==
    (app.mode = "List" /\ app.pending_action.kind = "IamConnect") =>
        \A k \in {Key("F1"), Ch_j} :
            OnKey(k, LAMBDA r :
                \A i \in 1..Len(r.w.calls) :
                    r.w.calls[i].cmd # "aws_sso_login")

\* C13: the login is run exactly after a token issuance that failed with an
\* expiry marker in its error text; after any other token failure nothing
\* else is run, no retry is enqueued, the status message reports the
\* token-generation error and the mode is as the key handler left it.
C13_LoginIffExpiry ==
    \A k \in {Key("Enter"), Key("F1")} :
        OnKey(k, LAMBDA r :
            LET c == r.w.calls
            IN  /\ \A i \in 1..Len(c) :
                        c[i].cmd = "aws_sso_login" <=>
                            (i > 1 /\ ExpiryAt(c, i - 1))
                /\ \A i \in 1..Len(c) :
                        ExpiryAt(c, i) =>
                            (i < Len(c) /\ c[i + 1].cmd = "aws_sso_login")
                /\ \A i \in 1..Len(c) :
                        (TokenFailedAt(c, i) /\ ~ExpiryAt(c, i)) =>
                            /\ i = Len(c)
                            /\ r.w.app.pending_action = NoPending
                            /\ r.w.app.status_message =
                                    <<L("Error: "),
                                      L("Failed to generate IAM token: ")>>
                                        \o c[i].err
                            /\ \E o \in Dispatch(World, k) :
                                    r.w.app.mode = o.w.app.mode)

\* a token issuance timed out, and nothing ran after it
C13_Witness ==
    /\ Len(calls) = 1
    /\ calls[1].cmd = "aws_token"
    /\ calls[1].err = <<T(AwsFailedPrefix \o ErrTimedOut)>>
    /\ app.pending_action = NoPending
    /\ app.mode = "List"

\* C16: at every poll for input pending_action is empty.
C16_NoPendingAtPoll ==
    exit = "running" => app.pending_action = NoPending

----------------------------------------------------------------------------
(* Actions, search, terminal, stores *)

\* C14: the action list is determined by the authentication kind of the
\* selected connection: IamConnect, Session, Delete for IAM and Connect,
\* Session, Delete for a password; so Enter on the first action opens the
\* profile selector for IAM only, and returns to the list (connecting with
\* the stored password) otherwise.
C14_ActionsByKind ==
    LET sel == selected_connection(app)
    IN  sel # <<>> =>
            LET iam == app.connections[sel[1]].iam_auth
            IN  /\ iam => available_actions(app) =
                                <<"IamConnect", "Session", "Delete">>
                /\ ~iam => available_actions(app) =
                                <<"Connect", "Session", "Delete">>
                /\ (app.mode = "Actions" /\ app.selected_action = 0) =>
                        OnKey(Key("Enter"), LAMBDA r :
                            r.w.app.mode =
                                IF iam THEN "ProfileSelector" ELSE "List")

\* the first action of the IAM connection "Nn" was executed
C14_Witness ==
    /\ app.mode = "ProfileSelector"
    /\ selected_connection(app) = <<Str_Nn>>
    /\ app.connections[Str_Nn].iam_auth

\* C15: clear_search applied twice gives what it gives applied once: query
\* and matches empty, search_match_index 0, mode and selected_index as they
\* were; Esc in the list is clear_search, Esc in Search mode is
\* clear_search and the return to the list.
C15_ClearSearchIdempotent ==
    LET once == clear_search(app)
    IN  /\ clear_search(once) = once
        /\ once.search_query = <<>>
        /\ once.search_matches = <<>>
        /\ once.search_match_index = 0
        /\ once.mode = app.mode
        /\ once.selected_index = app.selected_index
        /\ app.mode = "List" =>
                OnKey(Key("Esc"), LAMBDA r : r.w.app = once)
        /\ app.mode = "Search" =>
                OnKey(Key("Esc"), LAMBDA r :
                    r.w.app = [once EXCEPT !.mode = "List"])

\* a search is kept in the list, moved on to a later match
C15_Witness ==
    /\ app.mode = "List"
    /\ app.search_query # <<>>
    /\ app.search_matches # <<>>
    /\ app.search_match_index > 0

\* C17: whenever the loop draws or polls, the terminal is in raw mode with
\* the alternate screen entered, whatever the external processes of the
\* last pending action did.
C17_TuiAtPoll ==
    exit = "running" => term = TermTui

\* the login of an IAM connect failed, and the loop goes on
C17_Witness ==
    /\ exit = "running"
    /\ term = TermTui
    /\ \E i \in 1..Len(calls) :
            calls[i].cmd = "aws_sso_login" /\ calls[i].err # None
                /\ ~calls[i].raw

\* C18: every external process that runs while the terminal is handed off
\* (raw mode left) runs with a SIGINT handler registered.
C18_SigintMasked ==
    \A i \in 1..Len(calls) : ~calls[i].raw => calls[i].masked

\* C19: a failure of connections.json or of the keyring never makes run_app
\* return with an error.
C19_StoreFailureNotFatal ==
    exit # "error"

\* C20: when a form submit or a confirmed delete changed connections.json
\* (and the file could be read back), the cached map and the name list are
\* those of the file at the end of the iteration, also when the keyring
\* step failed.
C20_CacheFollowsStore ==
    \A k \in {Key("Enter"), Ch_y} :
        app.mode \in {"AddForm", "ConfirmDelete"} =>
            OnKey(k, LAMBDA r :
                (/\ r.w.disk # disk
                 /\ r.exit = "running"
                 /\ r.w.app.status_message #
                        <<L("Error: "), L("Could not read connections file")>>)
                => /\ r.w.app.connections = r.w.disk
                   /\ SortedListOf(r.w.app.connection_names,
                                   DOMAIN r.w.disk))


----------------------------------------------------------------------------
(* Search with an empty query *)

\* C21: whenever the connection search query is empty search_matches is
\* empty, and whenever the profile search query is empty
\* profile_search_matches is empty.
C21_EmptyQueryNoMatches ==
    /\ app.search_query = <<>> => app.search_matches = <<>>
    /\ app.profile_search_query = <<>> => app.profile_search_matches = <<>>


----------------------------------------------------------------------------
(* The form: validation, the submit key, the port *)

\* a text the form requires is missing
MissingField(f) ==
    \/ \E t \in {f.name, f.host, f.port, f.database, f.username} : t = <<>>
    \/ (~f.iam /\ f.password = <<>>)

\* the iteration left the stores as they are, and of the application state
\* changed the status message at most
OnlyStatusSet(r) ==
    /\ r.w.app = [app EXCEPT !.status_message = r.w.app.status_message]
    /\ r.w.disk = disk
    /\ r.w.keyring = keyring
    /\ r.exit = "running"

\* C22: a submit (Enter where the form submits) of a form that lacks name,
\* host, port, database or username, or the password with iam clear, sets a
\* status message starting with "Error" and changes nothing else: mode
\* AddForm, form contents and focus, cached connections, connections.json
\* and the keyring are as before.
C22_ValidationFails ==
    LET f == app.form_state
    IN  (app.mode = "AddForm" /\ f.current_field = 6 /\ MissingField(f))
        => OnKey(Key("Enter"), LAMBDA r :
                /\ StartsWithError(r.w.app.status_message)
                /\ r.w.app.mode = "AddForm"
                /\ OnlyStatusSet(r))

\* a submit with the port erased was refused
C22_Witness ==
    /\ app.mode = "AddForm"
    /\ app.form_state.port = <<>>
    /\ app.form_state.name # <<>>
    /\ app.status_message = <<L("Error: "), L("Port is required")>>

\* the decimal value of a digit string
Decimal(s) ==
    LET v[n \in 0..Len(s)] == IF n = 0 THEN 0 ELSE 10 * v[n - 1] + (s[n] - 48)
    IN  v[Len(s)]

\* C24: a character typed on the Port field is appended exactly when it is
\* an ASCII digit; a submit whose port text has a value above 65535 sets an
\* error status, stays in AddForm and persists nothing, and one whose port
\* text has a value in 0..65535 stores that value.
C24_PortRange ==
    LET f == app.form_state
    IN  /\ (app.mode = "AddForm" /\ f.current_field = 2) =>
                \A k \in AllChars :
                    OnKey(k, LAMBDA r :
                        r.w.app.form_state =
                            IF k.c \in 48..57
                            THEN [f EXCEPT !.port = Append(@, k.c)]
                            ELSE f)
        /\ (app.mode = "AddForm" /\ f.current_field = 6 /\ ~MissingField(f)) =>
                OnKey(Key("Enter"), LAMBDA r :
                    IF Decimal(f.port) > 65535
                    THEN /\ StartsWithError(r.w.app.status_message)
                         /\ r.w.app.mode = "AddForm"
                         /\ OnlyStatusSet(r)
                    ELSE /\ f.name \in DOMAIN r.w.disk
                         /\ r.w.disk[f.name].port = Decimal(f.port))

\* a submit with the port 65536 was refused
C24_Witness ==
    /\ app.mode = "AddForm"
    /\ app.form_state.port = Str_65536
    /\ app.status_message = <<L("Error: "), L("Invalid port number")>>


\* C23: Enter in AddForm validates and submits exactly when the focus is on
\* field 7 (Submit): there a form with a missing text gets an error status
\* and a complete form with a valid port is stored; on every other field,
\* Password included, Enter changes nothing.
C23_SubmitOnField7 ==
    LET f == app.form_state
    IN  app.mode = "AddForm" =>
            OnKey(Key("Enter"), LAMBDA r :
                IF f.current_field = 7
                THEN /\ MissingField(f) => StartsWithError(r.w.app.status_message)
                     /\ (~MissingField(f) /\ Decimal(f.port) <= 65535) =>
                            f.name \in DOMAIN r.w.disk
                ELSE r.w.app = app /\ r.w.disk = disk /\ r.w.keyring = keyring)


----------------------------------------------------------------------------
(* The actions of a connection *)

\* the connection selected in the list authenticates with IAM / a password
SelectedIam ==
    /\ selected_connection(app) # <<>>
    /\ app.connections[selected_connection(app)[1]].iam_auth
SelectedPassword ==
    /\ selected_connection(app) # <<>>
    /\ ~app.connections[selected_connection(app)[1]].iam_auth

\* C25: Connect on a password connection either finds the password, runs
\* the database client and sets mode List, or sets a status message
\* starting with "Error", runs nothing, enqueues nothing and leaves the
\* mode at Actions.
C25_ConnectOrRemain ==
    (/\ app.mode = "Actions"
     /\ SelectedPassword
     /\ app.selected_action = 0
     /\ app.pending_action = NoPending)
    => OnKey(Key("Enter"), LAMBDA r :
            \/ /\ Len(r.w.calls) = 1
               /\ r.w.calls[1].cmd = "psql"
               /\ r.w.app.mode = "List"
            \/ /\ r.w.calls = <<>>
               /\ StartsWithError(r.w.app.status_message)
               /\ r.w.app.pending_action = NoPending
               /\ r.w.app.mode = "Actions")


\* C26: executing IamConnect sets mode ProfileSelector and selected_profile
\* 0 and nothing else: no token is requested and no pending action is
\* enqueued.  In the profile selector a token is requested only by the
\* confirmation of a profile, and then by the pending-action consumer, with
\* the terminal handed off.
C26_TokenAfterProfile ==
    /\ (app.mode = "Actions" /\ SelectedIam /\ app.selected_action = 0) =>
            /\ \A o \in Dispatch(World, Key("Enter")) :
                    /\ o.err = None
                    /\ o.w.app = [app EXCEPT !.mode = "ProfileSelector",
                                             !.selected_profile = 0]
                    /\ o.w.calls = <<>>
            /\ app.pending_action = NoPending =>
                    OnKey(Key("Enter"), LAMBDA r :
                        /\ r.w.app = [app EXCEPT !.mode = "ProfileSelector",
                                                 !.selected_profile = 0]
                        /\ r.w.calls = <<>>)
    /\ (app.mode = "ProfileSelector" /\ app.pending_action = NoPending) =>
            \A k \in AllKeys :
                OnKey(k, LAMBDA r :
                    r.w.calls # <<>> =>
                        /\ k.code = "Enter"
                        /\ ~app.profile_search_active
                        /\ r.w.calls[1].cmd = "aws_token"
                        /\ ~r.w.calls[1].raw)

\* IamConnect was executed and no profile is confirmed yet
C26_Witness ==
    /\ app.mode = "ProfileSelector"
    /\ SelectedIam
    /\ app.selected_profile = 0
    /\ app.pending_action = NoPending
    /\ calls = <<>>

C27_WitnessNoProfile ==
    /\ app.aws_profiles = <<>>
    /\ app.status_message = <<L("Connecting with profile '"), L("default"), L("'...")>>
    /\ calls # <<>>


----------------------------------------------------------------------------
(* Leaving Search and ConfirmDelete, and the return from a handoff *)

\* C28: in Search mode Esc empties search_query and search_matches, resets
\* search_match_index and returns to List; Enter returns to List and leaves
\* everything else, the search state and selected_index included, as it
\* was, so that n and N in the list go on cycling through those matches.
C28_SearchEscEnter ==
    /\ app.mode = "Search" =>
            /\ OnKey(Key("Esc"), LAMBDA r :
                    r.w.app = [app EXCEPT !.search_query = <<>>,
                                          !.search_matches = <<>>,
                                          !.search_match_index = 0,
                                          !.mode = "List"])
            /\ OnKey(Key("Enter"), LAMBDA r :
                    r.w.app = [app EXCEPT !.mode = "List"])
    /\ (app.mode = "List" /\ app.search_matches # <<>>) =>
            LET m == app.search_matches
                i == app.search_match_index
            IN  /\ OnKey(Ch_n, LAMBDA r :
                        r.w.app = [app EXCEPT
                            !.search_match_index = (i + 1) % Len(m),
                            !.selected_index = m[((i + 1) % Len(m)) + 1]])
                /\ OnKey(Ch_N, LAMBDA r :
                        r.w.app = [app EXCEPT
                            !.search_match_index = (i + Len(m) - 1) % Len(m),
                            !.selected_index =
                                m[((i + Len(m) - 1) % Len(m)) + 1]])

\* a search was confirmed with Enter: the list shows its query and matches
C28_Witness ==
    /\ app.mode = "List"
    /\ app.search_query = Str_n
    /\ app.search_matches = <<0, 1>>
    /\ app.search_match_index = 1

C30_HandoffReport ==
    \A k \in {Key("Enter"), Key("F1")} :
        OnKey(k, LAMBDA r :
            LET c == r.w.calls
            IN  (c # <<>> /\ c[Len(c)].cmd \in {"psql", "shell", "psql_iam"}) =>
                    \E o \in Dispatch(World, k) :
                        /\ o.err = None
                        /\ o.w.app.pending_action # NoPending
                        /\ r.w.app =
                            [o.w.app EXCEPT
                                !.pending_action = NoPending,
                                !.status_message =
                                    IF c[Len(c)].err = None THEN @
                                    ELSE <<L("Error: ")>> \o c[Len(c)].err]
                        /\ c[Len(c)].err # None =>
                                StartsWithError(r.w.app.status_message))

\* psql was run with the stored password and failed
C30_Witness ==
    /\ Len(calls) = 1
    /\ calls[1].cmd = "psql"
    /\ calls[1].err # None
    /\ app.status_message = <<L("Error: ")>> \o calls[1].err
    /\ app.mode = "List"


----------------------------------------------------------------------------
(* Login failure, signal handling, the status message *)

\* C31: when the login that follows a token failure with an expiry marker
\* fails, the status message is "SSO login failed: " with the login error,
\* no retry is enqueued and nothing is run after the login.
C31_LoginFailureReported ==
    \A k \in {Key("Enter"), Key("F1")} :
        OnKey(k, LAMBDA r :
            LET c == r.w.calls
            IN  \A i \in 1..Len(c) :
                    (c[i].cmd = "aws_sso_login" /\ c[i].err # None) =>
                        /\ i = Len(c)
                        /\ r.w.app.pending_action = NoPending
                        /\ r.w.app.status_message =
                                <<L("SSO login failed: ")>> \o c[i].err)

\* the login of an IAM connect failed
C31_Witness ==
    /\ Len(calls) = 2
    /\ ExpiryAt(calls, 1)
    /\ calls[2].cmd = "aws_sso_login"
    /\ calls[2].err # None
    /\ app.pending_action = NoPending
    /\ app.status_message = <<L("SSO login failed: ")>> \o calls[2].err

\* C32: when the loop polls, no SIGINT handler installed for a handoff is
\* registered any more: the disposition is the one of the start of the
\* session.
C32_SigintRestored ==
    exit = "running" => ~sigint

\* C33: a status message, once set, is never cleared: whatever key the loop
\* reads next, a message is still there.
C33_StatusNeverCleared ==
    app.status_message # None =>
        \A k \in AllKeys \cup {CtrlC} :
            OnKey(k, LAMBDA r : r.w.app.status_message # None)

\* a message is shown, the search of the list is open: Esc clears the search
C33_Witness ==
    /\ app.status_message # None
    /\ app.mode = "Search"


----------------------------------------------------------------------------
(* Submitting a form with IAM authentication *)

\* the worlds the loop can be in after at most n of the keys Tab, Shift-Tab
\* and Enter, read one after the other from a world of S
RECURSIVE AfterFormKeys(_, _)
AfterFormKeys(S, n) ==
    IF n = 0 THEN S
    ELSE S \cup AfterFormKeys(
            {r.w : r \in {x \in UNION {run_app(w, k) :
                                w \in S,
                                k \in {Key("Tab"), Key("BackTab"), Key("Enter")}} :
                            x.exit = "running"}},
            n - 1)

\* C34: from AddForm with iam set and name, host, a valid port, database and
\* username filled, some sequence of Tab, Shift-Tab and Enter keys reaches a
\* successful submit that persists the record with IAM authentication.
C34_IamFormSubmittable ==
    LET f == app.form_state
    IN  ( /\ exit = "running"
          /\ app.mode = "AddForm"
          /\ f.iam
          /\ \A t \in {f.name, f.host, f.port, f.database, f.username} : t # <<>>
          /\ Decimal(f.port) <= 65535 ) =>
            \E w \in AfterFormKeys({World}, MaxKeys) :
                /\ f.name \in DOMAIN w.disk
                /\ w.disk[f.name].iam_auth


----------------------------------------------------------------------------
(* State that outlives the mode that wrote it *)

\* C35: every index in search_matches is smaller than the number of
\* connection names and names a connection whose name contains search_query
\* case-insensitively, also after a connection was added or deleted.
C35_MatchesNeverStale ==
    \A i \in 1..Len(app.search_matches) :
        LET m == app.search_matches[i]
        IN  /\ m < Len(app.connection_names)
            /\ OccursIn(app.search_query, app.connection_names[m + 1])

\* C36: whenever IAMConnect switches the mode to ProfileSelector, the
\* selector starts in the normal sub-mode without a filter:
\* profile_search_active is false, the query and the matches are empty.
C36_ProfileSelectorStartsClean ==
    (app.mode = "Actions" /\ SelectedIam /\ app.selected_action = 0) =>
        OnKey(Key("Enter"), LAMBDA r :
            r.w.app.mode = "ProfileSelector" =>
                /\ ~r.w.app.profile_search_active
                /\ r.w.app.profile_search_query = <<>>
                /\ r.w.app.profile_search_matches = <<>>)

\* C37: a pending action is never discarded: the session does not exit
\* through quit while pending_action is non-empty.
C37_NoPendingAtQuit ==
    exit = "quit" => app.pending_action = NoPending

\* C38: a submit that fails while saving to the Connection Store leaves the
\* cached connection map as it was.
C38_FailedSaveKeepsCache ==
    (app.mode = "AddForm" /\ app.form_state.current_field = 6) =>
        OnKey(Key("Enter"), LAMBDA r :
            (StartsWithError(r.w.app.status_message) /\ r.w.disk = disk) =>
                r.w.app.connections = app.connections)


----------------------------------------------------------------------------
(* The name list at a draw, and quitting *)

\* C39: at every draw every name in connection_names is a key of the cached
\* connections map, and connection_names is sorted ascending without
\* duplicates.
C39_NamesSortedKeys ==
    LET names == app.connection_names
    IN  exit = "running" =>
            /\ \A i \in 1..Len(names) : names[i] \in DOMAIN app.connections
            /\ \A i \in 1..(Len(names) - 1) : StrLess(names[i], names[i + 1])

\* a second connection was added through the form
C39_Witness ==
    /\ exit = "running"
    /\ Len(app.connection_names) = 2
    /\ app.status_message = <<L("Connection added successfully")>>

============================================================================
